---- MODULE Spec2Model ----
(***************************************************************************)
(* Model of src/connector.py: the update() generator of a Smartsheet ->    *)
(* Fivetran connector.  One run of update() reads the configuration and    *)
(* the persisted state, decides between a full and an incremental sync,    *)
(* fetches every configured sheet in turn, yields upsert and delete        *)
(* operations and ends with one checkpoint that becomes the persisted      *)
(* state of the next run.                                                  *)
(*                                                                         *)
(* Strings that the code takes apart (the comma separated sheet list, a    *)
(* sheet's display name) are sequences of one-character strings.  Time is  *)
(* an integer number of ticks, TicksPerSec ticks to the second; an ISO     *)
(* timestamp written by isoformat() after replace(microsecond=0) is the    *)
(* whole number of seconds it denotes.                                     *)
(***************************************************************************)
EXTENDS Integers, Sequences, FiniteSets, TLC

\* ---------------------------------------------------------------- bounds
MaxRawLen == 3
MaxRowId == 2
MaxRows == 2
MaxRuns == 2
MaxEdits == 1
MaxCols == 2
TicksPerSec == 2

\* ----------------------------------------------------- program constants
StaleDays == 7
SecondsPerDay == 86400
NoId == 0

TicksPerDay == SecondsPerDay * TicksPerSec

\* ------------------------------------------------------------ characters
Alphabet == {"a", "b", ",", " "}

SeqsUpTo(S, n) == UNION {[1..k -> S] : k \in 0..n}

\* str.split(","): the segments between commas, empty ones included.
RECURSIVE SplitComma(_)
SplitComma(s) ==
    IF \A i \in 1..Len(s) : s[i] # ","
    THEN <<s>>
    ELSE LET k == CHOOSE i \in 1..Len(s) :
                      s[i] = "," /\ \A j \in 1..(i - 1) : s[j] # ","
         IN  <<SubSeq(s, 1, k - 1)>> \o SplitComma(SubSeq(s, k + 1, Len(s)))

\* str.strip(): leading and trailing blanks removed, inner ones kept.
RECURSIVE Strip(_)
Strip(s) ==
    IF s = <<>> THEN s
    ELSE IF Head(s) = " " THEN Strip(Tail(s))
    ELSE IF s[Len(s)] = " " THEN Strip(SubSeq(s, 1, Len(s) - 1))
    ELSE s

\* [s.strip() for s in sheet_ids_raw.split(",") if s.strip()]
RECURSIVE StripAll(_)
StripAll(segs) ==
    IF segs = <<>> THEN <<>>
    ELSE LET t == Strip(Head(segs))
         IN  (IF t # <<>> THEN <<t>> ELSE <<>>) \o StripAll(Tail(segs))

ParseSheetIds(raw) == StripAll(SplitComma(raw))

\* sheet_name.lower().replace(" ", "_")
format_table_name(sheet_name) ==
    [i \in 1..Len(sheet_name) |->
        CASE sheet_name[i] = " " -> "_"
          [] sheet_name[i] = "A" -> "a"
          [] sheet_name[i] = "B" -> "b"
          [] OTHER -> sheet_name[i]]

\* --------------------------------------------------------------- cursors
\* A stored sync_cursor: absent (None), a value that is falsy without
\* being None (the empty string, 0), a non-empty string fromisoformat()
\* rejects, or the ISO string of a whole second.
NoCursor == [kind |-> "none", secs |-> 0]
EmptyCursor == [kind |-> "empty", secs |-> 0]
BadCursor == [kind |-> "bad", secs |-> 0]
IsoCursor(s) == [kind |-> "iso", secs |-> s]

\* "if sync_cursor:" at lines 75 and 104.
Truthy(c) == c.kind \in {"bad", "iso"}

\* datetime.now(pacific).replace(microsecond=0).isoformat()
isoformat(now) == IsoCursor(now \div TicksPerSec)

\* datetime.fromisoformat(sync_cursor), for a cursor that parses
fromisoformat(c) == c.secs * TicksPerSec

\* (now - last_sync).days
AgeDays(c, now) == (now - fromisoformat(c)) \div TicksPerDay

\* Mutant: the staleness test written with > instead of >=.
DetermineModeGt(stored, now) ==
    IF ~Truthy(stored) THEN stored
    ELSE IF stored.kind = "bad" THEN NoCursor
    ELSE IF AgeDays(stored, now) > StaleDays THEN NoCursor
    ELSE stored

\* Lines 75-84: the cursor the run goes on with.  A falsy cursor is left as
\* it is, an unreadable or stale one becomes None.
DetermineMode(stored, now) ==
    IF ~Truthy(stored) THEN stored
    ELSE IF stored.kind = "bad" THEN NoCursor
    ELSE IF AgeDays(stored, now) >= StaleDays THEN NoCursor
    ELSE stored

\* ----------------------------------------------------------- remote data
RowIds == 1..MaxRowId

\* A cell of a row: a JSON object with columnId and value, or something
\* that is no object (cell.get raises).
GoodCell == [dict |-> TRUE, columnId |-> 1, value |-> "x"]
UnknownCell == [dict |-> TRUE, columnId |-> 2, value |-> "y"]
BadCell == [dict |-> FALSE, columnId |-> 0, value |-> ""]
CellLists == {<<UnknownCell, GoodCell>>, <<GoodCell, BadCell>>}

\* A column of the response: an object with "id" and "title", or one that
\* lacks a key (complete = FALSE: col['title'] raises).
Columns == <<[id |-> 1, title |-> "Name", complete |-> TRUE]>>
TitlelessColumns == <<[id |-> 1, title |-> "", complete |-> FALSE]>>

\* A row of the response: a row with an ID and well-formed cells, the
\* first row with a cell that is no object, a row without an "id" key
\* (id = NoId) whose cells are well formed, or a row that is no object (a
\* string: row.get raises).
Rows == [dict : {TRUE}, id : RowIds, rowNumber : {1}, expanded : {TRUE},
         createdAt : {"c"}, modifiedAt : {"m"}, cells : {<<UnknownCell, GoodCell>>}]
        \cup [dict : {TRUE}, id : {1}, rowNumber : {1}, expanded : {TRUE},
              createdAt : {"c"}, modifiedAt : {"m"}, cells : CellLists]
        \cup [dict : {TRUE}, id : {NoId}, rowNumber : {1}, expanded : {TRUE},
              createdAt : {"c"}, modifiedAt : {"m"}, cells : {<<UnknownCell, GoodCell>>}]
StringRow == [dict |-> FALSE, id |-> NoId, rowNumber |-> 1, expanded |-> TRUE,
              createdAt |-> "c", modifiedAt |-> "m", cells |-> <<>>]

\* Row IDs are unique within a sheet; the remote lists the rows by ID.
DistinctIds(rows) ==
    \A i, j \in 1..Len(rows) :
        (i < j /\ rows[i].dict /\ rows[j].dict) => rows[i].id < rows[j].id

\* No row is read after one that is no object; it is listed last.
ObjectsFirst(rows) == \A i \in 1..(Len(rows) - 1) : rows[i].dict

\* Answers on which update() raises outside every try: "columns" is null
\* or holds a column without title (line 126), "rows" is null (line 134).
\* null holds the keys whose value is null.
Malformed ==
    {[columns |-> <<>>, rows |-> <<>>, null |-> {"columns"}],
     [columns |-> TitlelessColumns, rows |-> <<>>, null |-> {}],
     [columns |-> Columns, rows |-> <<>>, null |-> {"rows"}]}

Responses(n) ==
    [columns : {Columns},
     rows : {rows \in SeqsUpTo(Rows \cup {StringRow}, n) :
                 DistinctIds(rows) /\ ObjectsFirst(rows)},
     null : {{}}]
    \cup Malformed

NoResponse == [columns |-> <<>>, rows |-> <<>>, null |-> {}]

\* Line 126 raises: for col in None, or col['id'] / col['title'] on a
\* column that lacks the key.
ColumnsRaise(data) ==
    \/ "columns" \in data.null
    \/ \E i \in 1..Len(data.columns) : ~data.columns[i].complete

\* Line 134 raises: for row in None.
RowsRaise(data) == "rows" \in data.null

\* The display name the remote reports for a sheet: sheets whose ID starts
\* with "a" are called "A <id>", the others report no name.
HasName(sheet_id) == sheet_id[1] = "a"
RemoteName(sheet_id) == <<"A", " ">> \o sheet_id

\* data.get("name", f"smartsheet_{sheet_id}")
SheetName(sheet_id) ==
    IF HasName(sheet_id) THEN RemoteName(sheet_id)
    ELSE <<"s", "m", "a", "r", "t", "s", "h", "e", "e", "t", "_">> \o sheet_id

TableName(sheet_id) == format_table_name(SheetName(sheet_id))

\* {col['id']: col['title'] for col in data.get('columns', [])}
column_mapping(columns) ==
    [c \in {columns[i].id : i \in 1..Len(columns)} |->
        LET last == CHOOSE i \in 1..Len(columns) :
                        /\ columns[i].id = c
                        /\ \A j \in (i + 1)..Len(columns) : columns[j].id # c
        IN  columns[last].title]

\* Mutant: the write replaces the whole map by the one entry.
PutAlone(f, k, v) == [x \in {k} |-> v]

Put(f, k, v) == [x \in DOMAIN f \cup {k} |-> IF x = k THEN v ELSE f[x]]

\* Lines 140-146.
BaseRowData(row) ==
    [id |-> row.id, row_number |-> row.rowNumber, expanded |-> row.expanded,
     created_at |-> row.createdAt, modified_at |-> row.modifiedAt]

\* Lines 149-154: the cells folded into row_data; raised when a cell is no
\* object.
RECURSIVE FillCells(_, _, _)
FillCells(row_data, cells, mapping) ==
    IF cells = <<>> THEN [raised |-> FALSE, data |-> row_data]
    ELSE LET cell == Head(cells)
         IN  IF ~cell.dict THEN [raised |-> TRUE, data |-> row_data]
             ELSE IF cell.columnId \in DOMAIN mapping /\ mapping[cell.columnId] # ""
             THEN FillCells(Put(row_data, mapping[cell.columnId], cell.value),
                            Tail(cells), mapping)
             ELSE FillCells(row_data, Tail(cells), mapping)

\* ------------------------------------------------------------ operations
Upsert(table, data, entry) ==
    [op |-> "upsert", table |-> table, data |-> data, entry |-> entry]
Delete(table, id, entry) ==
    [op |-> "delete", table |-> table, data |-> [id |-> id], entry |-> entry]
Checkpoint(cursor, ids) ==
    [op |-> "checkpoint", table |-> <<>>,
     data |-> [sync_cursor |-> cursor, all_ids |-> ids], entry |-> 0]

\* Lines 134-164: the upserts of a sheet's rows, in row order; a row whose
\* processing raises yields nothing.
RECURSIVE RowUpserts(_, _, _, _)
RowUpserts(rows, table, mapping, entry) ==
    IF rows = <<>> THEN <<>>
    ELSE LET r == FillCells(BaseRowData(Head(rows)), Head(rows).cells, mapping)
         IN  (IF r.raised THEN <<>> ELSE <<Upsert(table, r.data, entry)>>)
             \o RowUpserts(Tail(rows), table, mapping, entry)

\* Line 139: new_ids.add(row_id) runs for every row, before its cells.
NewIds(rows) == {rows[i].id : i \in 1..Len(rows)}

\* Line 167.
CurrentIds(previous_ids, new_ids, cursor) == new_ids

\* Mutant: in full mode every ID of the previous state is deleted.
DeletedIdsAll(previous_ids, current_ids, cursor) ==
    IF cursor = NoCursor THEN previous_ids ELSE {}

\* Lines 173-177.
DeletedIds(previous_ids, current_ids, cursor) ==
    IF cursor = NoCursor THEN previous_ids \ current_ids ELSE {}

\* all_state_ids.get(sheet_id, [])
PreviousIds(ids, sheet_id) == IF sheet_id \in DOMAIN ids THEN ids[sheet_id] ELSE {}

\* Mutant: the cursor stamped when the checkpoint is written.
CheckpointCursorAtEnd(start_stamp, now) == isoformat(now)

\* Line 185: the checkpoint carries the stamp taken at line 88.
CheckpointCursor(start_stamp, now) == start_stamp

\* Mutant: a sheet's operations are put ahead of what was yielded before.
YieldedAhead(stream, produced) == produced \o stream

\* update() is a generator: what it yields follows what it yielded before.
Yielded(stream, produced) == stream \o produced

\* ----------------------------------------------------------------- state
VARIABLES
    configuration,  \* the connector's configuration.json, fixed
    committed,      \* the state the destination holds: the last checkpoint
    clock,          \* wall clock, in ticks
    started,        \* the clock when the current run read it (lines 78, 88)
    budget,         \* rows the remote will still serve
    runs,           \* calls of update() so far
    pc,             \* "idle", "running", "failed" (ValueError at line 93),
                    \* "crashed" (an exception no handler caught) or "done"
    state,          \* update()'s state argument, as the run received it
    sheet_ids,      \* update()'s locals
    sync_cursor,
    sync_start,
    all_state_ids,
    idx,            \* position of the for loop in sheet_ids
    row_index,      \* position of the row loop in the fetched sheet's rows
    new_ids,        \* the row loop's new_ids
    ops,            \* the operations this run has yielded, in order
    fetchLog,       \* the requests this run has sent, in order
    source,         \* the remote's sheets: per sheet, row ID -> tick of last change
    dest,           \* the destination's tables: per table, the row IDs it holds
    pending,        \* <<sheet, row ID>> changed at the source, no upsert since
    edits,          \* changes made at the source so far
    lastFull,       \* the clock when the latest full-mode run started
    prevRun         \* the operations and requests of the run before this one

\* What the specifications that follow the remote and the destination keep.
syncVars == <<source, dest, pending, edits, lastFull, prevRun>>

vars == <<configuration, committed, clock, started, budget, runs, pc, state, sheet_ids,
          sync_cursor, sync_start, all_state_ids, idx, row_index, new_ids, ops, fetchLog,
          source, dest,
          pending, edits, lastFull, prevRun>>

\* configuration.get('smartsheet_api_token'): None is the empty token here,
\* both are falsy at line 91.
Tokens == {<<>>, <<"t">>}
AllRawIds == SeqsUpTo(Alphabet, MaxRawLen)
\* Sheet lists with one sheet, with two sheets and with one sheet listed
\* twice, with blanks and empty segments, and lists that hold no sheet.
SomeRawIds ==
    {<<>>, <<" ", ",">>, <<" ", "a">>, <<"a", ",", "a">>, <<"a", ",", ",", " ", "b">>}
Configurations(raws) ==
    [smartsheet_api_token : Tokens,
     smartsheet_sheet_ids : raws]

\* The states a first run may be handed: no cursor and nothing recorded,
\* or no cursor, an unreadable or an empty cursor and every ID of one sheet
\* recorded.
KnownSheet == <<"a">>
InitAllIds == {<<>>, [s \in {KnownSheet} |-> RowIds]}
InitStates == [sync_cursor : {NoCursor}, all_ids : InitAllIds]
              \cup {[sync_cursor |-> c, all_ids |-> [s \in {KnownSheet} |-> RowIds]] :
                        c \in {BadCursor, EmptyCursor}}

\* The first run starts just before a second ends.
InitClock == TicksPerSec - 1

InitLocals ==
    /\ clock = InitClock
    /\ started = 0
    /\ runs = 0
    /\ pc = "idle"
    /\ state = [sync_cursor |-> NoCursor, all_ids |-> <<>>]
    /\ sheet_ids = <<>>
    /\ sync_cursor = NoCursor
    /\ sync_start = NoCursor
    /\ all_state_ids = <<>>
    /\ idx = 0
    /\ row_index = 0
    /\ new_ids = {}
    /\ ops = <<>>
    /\ fetchLog = <<>>

NoRun ==
    [ops |-> <<>>, log |-> <<>>, cursor |-> NoCursor, started |-> 0, changed |-> FALSE,
     seen |-> 0]

\* The remote and the destination are not followed.
NotFollowed ==
    /\ source = <<>>
    /\ dest = <<>>
    /\ pending = {}
    /\ edits = 0
    /\ lastFull = 0
    /\ prevRun = NoRun

Init ==
    /\ configuration \in Configurations(SomeRawIds)
    /\ committed \in InitStates
    /\ budget = MaxRows
    /\ InitLocals
    /\ NotFollowed

\* Mutant: line 91 without the test of sheet_ids.
ConfigOkTokenOnly(cfg) == cfg.smartsheet_api_token # <<>>

\* Line 91.
ConfigOk(cfg) ==
    cfg.smartsheet_api_token # <<>> /\ ParseSheetIds(cfg.smartsheet_sheet_ids) # <<>>

\* When the scheduler calls update(): at once on a first sync; later, one
\* tick before the stored cursor turns StaleDays old, at that moment, or a
\* day after it.
StartTimes ==
    IF committed.sync_cursor.kind # "iso" THEN {clock}
    ELSE {t \in {fromisoformat(committed.sync_cursor) + StaleDays * TicksPerDay + k :
                     k \in {-1, 0, TicksPerDay}} : t >= clock}

\* update() is called again after a run that ended with its checkpoint or
\* on the configuration error; a run that ended on another exception left
\* the stored state as it was and is not followed further.
CanStart == pc \in {"idle", "done", "failed"} /\ runs < MaxRuns

\* Lines 71-88 when update() is called at one of the given times.  The
\* clock is read at line 78, for a stored cursor that parses, and again at
\* line 88; it may have moved on by a tick in between.
ModeAndStamp(times) ==
    \E now \in times :
        \E stamp \in IF committed.sync_cursor.kind = "iso" THEN {now, now + 1} ELSE {now} :
            /\ started' = now
            /\ sync_cursor' = DetermineMode(committed.sync_cursor, now)
            /\ sync_start' = isoformat(stamp)
            /\ clock' = stamp

\* Lines 62-96 with a configuration that passes line 91, called at one of
\* the given times.
BeginRun(times) ==
    /\ ConfigOk(configuration)
    /\ ModeAndStamp(times)
    /\ runs' = runs + 1
    /\ state' = committed
    /\ sheet_ids' = ParseSheetIds(configuration.smartsheet_sheet_ids)
    /\ all_state_ids' = committed.all_ids
    /\ idx' = 1
    /\ row_index' = 0
    /\ new_ids' = {}
    /\ ops' = <<>>
    /\ fetchLog' = <<>>
    /\ pc' = "running"
    /\ UNCHANGED <<configuration, committed, budget>>

StartRun ==
    /\ CanStart
    /\ BeginRun(StartTimes)
    /\ UNCHANGED syncVars

\* Lines 62-93 with a configuration that fails line 91: ValueError.
ConfigError ==
    /\ CanStart
    /\ ~ConfigOk(configuration)
    /\ ModeAndStamp(StartTimes)
    /\ runs' = runs + 1
    /\ state' = committed
    /\ sheet_ids' = ParseSheetIds(configuration.smartsheet_sheet_ids)
    /\ all_state_ids' = <<>>
    /\ idx' = 0
    /\ row_index' = 0
    /\ new_ids' = {}
    /\ ops' = <<>>
    /\ fetchLog' = <<>>
    /\ pc' = "failed"
    /\ UNCHANGED <<configuration, committed, budget>>
    /\ UNCHANGED syncVars

\* Mutant: the cursor is used for the first configured sheet only.
RequestFirstSheetOnly(sheet_id, cursor) ==
    [sheet |-> sheet_id,
     since |-> IF Truthy(cursor) /\ sheet_id = KnownSheet THEN cursor ELSE NoCursor]

\* Lines 104-109: the request for a sheet; rowsModifiedSince is sent for a
\* truthy cursor only.
Request(sheet_id, cursor) ==
    [sheet |-> sheet_id, since |-> IF Truthy(cursor) THEN cursor ELSE NoCursor]

\* At line 99, a sheet to go; and inside the sheet whose fetch succeeded.
InLoop == pc = "running" /\ idx <= Len(sheet_ids) /\ Len(fetchLog) < idx
InSheet == pc = "running" /\ idx <= Len(sheet_ids) /\ Len(fetchLog) = idx

\* Lines 99-123 when the request or the parsing of its answer raises; a
\* request takes one tick.
FetchFail ==
    /\ InLoop
    /\ fetchLog' = Append(fetchLog,
           [request |-> Request(sheet_ids[idx], sync_cursor), at |-> clock,
            ok |-> FALSE, response |-> NoResponse])
    /\ clock' = clock + 1
    /\ idx' = idx + 1
    /\ UNCHANGED <<configuration, committed, started, budget, runs, pc, state,
                   sheet_ids, sync_cursor, sync_start, all_state_ids, row_index, new_ids, ops>>
    /\ UNCHANGED syncVars

\* Lines 99-134 when the fetch succeeds and answers data: the run is at
\* the head of the row loop, or has ended on the exception of line 126 or
\* line 134, which no handler catches.
FetchOk(data) ==
    /\ InLoop
    /\ fetchLog' = Append(fetchLog,
           [request |-> Request(sheet_ids[idx], sync_cursor), at |-> clock,
            ok |-> TRUE, response |-> data])
    /\ row_index' = 1
    /\ new_ids' = {}
    /\ clock' = clock + 1
    /\ pc' = IF ColumnsRaise(data) \/ RowsRaise(data) THEN "crashed" ELSE pc
    /\ UNCHANGED <<configuration, committed, started, runs, state, sheet_ids,
                   sync_cursor, sync_start, all_state_ids, idx, ops>>

Fetched == fetchLog[idx].response
previous_ids == PreviousIds(all_state_ids, sheet_ids[idx])
current_ids == CurrentIds(previous_ids, new_ids, sync_cursor)

\* The row loop of lines 134-164 has ended.
RowsDone == row_index > Len(Fetched.rows)

\* Lines 134-164 for one row: its ID goes into new_ids, and its upsert is
\* yielded unless its processing raises.  For a row that is no object
\* row.get raises at line 138 and again in the handler, at line 163, where
\* nothing catches it: the run ends.
RowStep ==
    /\ InSheet
    /\ row_index <= Len(Fetched.rows)
    /\ IF Fetched.rows[row_index].dict
       THEN /\ new_ids' = new_ids \cup NewIds(<<Fetched.rows[row_index]>>)
            /\ ops' = Yielded(ops, RowUpserts(<<Fetched.rows[row_index]>>,
                                              TableName(sheet_ids[idx]),
                                              column_mapping(Fetched.columns), idx))
            /\ row_index' = row_index + 1
            /\ pc' = pc
       ELSE /\ pc' = "crashed"
            /\ UNCHANGED <<new_ids, ops, row_index>>
    /\ UNCHANGED <<configuration, committed, clock, started, runs, state, sheet_ids,
                   sync_cursor, sync_start, all_state_ids, idx, fetchLog>>

\* The IDs of deleted_ids (line 174) the loop at line 176 has not reached.
ToDelete ==
    DeletedIds(previous_ids, current_ids, sync_cursor)
    \ {ops[k].data.id : k \in {j \in 1..Len(ops) : ops[j].entry = idx /\ ops[j].op = "delete"}}

\* Lines 173-177 for one ID; a set is iterated in any order.
DeleteStep ==
    /\ InSheet
    /\ RowsDone
    /\ \E id \in ToDelete :
        ops' = Yielded(ops, <<Delete(TableName(sheet_ids[idx]), id, idx)>>)
    /\ UNCHANGED <<configuration, committed, clock, started, runs, pc, state, sheet_ids,
                   sync_cursor, sync_start, all_state_ids, idx, row_index, new_ids, fetchLog>>

\* Line 181, and on to the next sheet.
WriteIds ==
    /\ InSheet
    /\ RowsDone
    /\ ToDelete = {}
    /\ all_state_ids' = Put(all_state_ids, sheet_ids[idx], current_ids)
    /\ idx' = idx + 1
    /\ row_index' = 0
    /\ new_ids' = {}
    /\ UNCHANGED <<configuration, committed, clock, started, runs, pc, state, sheet_ids,
                   sync_cursor, sync_start, ops, fetchLog>>

\* The remote answers any sheet of the rows it will still serve.
FetchSheet ==
    /\ \E data \in Responses(budget) :
        /\ FetchOk(data)
        /\ budget' = budget - Len(data.rows)
    /\ UNCHANGED syncVars

UpsertRow == RowStep /\ UNCHANGED budget /\ UNCHANGED syncVars
DeleteRow == DeleteStep /\ UNCHANGED budget /\ UNCHANGED syncVars
StoreIds == WriteIds /\ UNCHANGED budget /\ UNCHANGED syncVars

\* Lines 183-187; the destination stores the checkpoint.
FinalCheckpoint ==
    /\ pc = "running"
    /\ idx > Len(sheet_ids)
    /\ LET cp == Checkpoint(CheckpointCursor(sync_start, clock), all_state_ids)
       IN  /\ ops' = Append(ops, cp)
           /\ committed' = cp.data
    /\ pc' = "done"
    /\ UNCHANGED <<configuration, clock, started, budget, runs, state, sheet_ids, sync_cursor,
                   sync_start, all_state_ids, idx, row_index, new_ids, fetchLog>>
    /\ UNCHANGED syncVars

Next ==
    StartRun \/ ConfigError \/ FetchFail \/ FetchSheet \/ UpsertRow \/ DeleteRow
    \/ StoreIds \/ FinalCheckpoint

Spec == Init /\ [][Next]_vars

\* Every sheet list of up to MaxRawLen characters, a sheet listed twice
\* included, against a remote whose sheets hold no row.
InitConfig ==
    /\ configuration \in Configurations(AllRawIds)
    /\ committed \in {[sync_cursor |-> NoCursor, all_ids |-> <<>>],
                      [sync_cursor |-> EmptyCursor, all_ids |-> [s \in {KnownSheet} |-> RowIds]],
                      [sync_cursor |-> BadCursor, all_ids |-> [s \in {KnownSheet} |-> RowIds]]}
    /\ budget = 0
    /\ InitLocals
    /\ NotFollowed

\* The remote's sheets are empty: no row is processed.
NextConfig ==
    StartRun \/ ConfigError \/ FetchFail \/ FetchSheet \/ DeleteRow \/ StoreIds
    \/ FinalCheckpoint

SpecConfig == InitConfig /\ [][NextConfig]_vars

\* ------------------------------------------------- sheets of any layout
\* The columns a sheet may have: a column titled "Name", columns titled
\* like a key the code writes itself, a column with the empty title and a
\* second column titled "Name".  A cell holds a value of the kind its
\* column holds.
CellNumber == 9
Catalogue ==
    <<[id |-> 1, title |-> "Name", complete |-> TRUE],
      [id |-> 2, title |-> "id", complete |-> TRUE],
      [id |-> 3, title |-> "row_number", complete |-> TRUE],
      [id |-> 4, title |-> "expanded", complete |-> TRUE],
      [id |-> 5, title |-> "created_at", complete |-> TRUE],
      [id |-> 6, title |-> "modified_at", complete |-> TRUE],
      [id |-> 7, title |-> "", complete |-> TRUE],
      [id |-> 8, title |-> "Name", complete |-> TRUE]>>
UnknownColumn == Len(Catalogue) + 1
CellOf(columnId) ==
    [dict |-> TRUE, columnId |-> columnId,
     value |-> IF columnId \in {2, 3} THEN CellNumber
               ELSE IF columnId = 4 THEN FALSE
               ELSE IF columnId = 8 THEN "w"
               ELSE IF columnId = UnknownColumn THEN "y" ELSE "x"]
\* Another cell of the first column, with another value.
SecondCell == [dict |-> TRUE, columnId |-> 1, value |-> "z"]
Picks(S, n) == {p \in SeqsUpTo(S, n) : \A i, j \in 1..Len(p) : p[i] = p[j] => i = j}
\* A sheet has up to MaxCols of the columns, in any order; a row has up to
\* MaxCols cells, of these or of an unknown column, two of them of one
\* column at most.
Layouts == {[i \in 1..Len(p) |-> Catalogue[p[i]]] : p \in Picks(1..Len(Catalogue), MaxCols)}
LayoutCells ==
    Picks({CellOf(c) : c \in 1..UnknownColumn} \cup {SecondCell}, MaxCols)
LayoutRows == [dict : {TRUE}, id : RowIds, rowNumber : {1}, expanded : {TRUE},
               createdAt : {"c"}, modifiedAt : {"m"}, cells : LayoutCells]
LayoutResponses(n) ==
    [columns : Layouts, rows : {rows \in SeqsUpTo(LayoutRows, n) : DistinctIds(rows)},
     null : {{}}]

\* One sheet is configured, first sync; the remote serves one row in all.
InitCells ==
    /\ configuration = [smartsheet_api_token |-> <<"t">>, smartsheet_sheet_ids |-> <<" ", "a">>]
    /\ committed = [sync_cursor |-> NoCursor, all_ids |-> <<>>]
    /\ budget = 1
    /\ InitLocals
    /\ NotFollowed

\* Lines 99-131 when the fetch succeeds, for a sheet of any layout.
FetchSheetCells ==
    /\ \E data \in LayoutResponses(budget) :
        /\ FetchOk(data)
        /\ budget' = budget - Len(data.rows)
    /\ UNCHANGED syncVars

\* The first call of update().
StartRunCells ==
    /\ pc = "idle"
    /\ BeginRun({clock})
    /\ UNCHANGED syncVars

NextCells == StartRunCells \/ FetchSheetCells \/ UpsertRow \/ StoreIds \/ FinalCheckpoint

SpecCells == InitCells /\ [][NextCells]_vars

\* ------------------------------------- the remote and the destination
\* Two sheets are configured; the rows of the first one change between runs.
SyncRaw == <<"a", ",", ",", " ", "b">>
SyncSheets == ParseSheetIds(SyncRaw)
OtherSheet == SyncSheets[2]
SyncRuns == MaxRuns + 1

\* A row as the remote serves it.
SourceRow(id) ==
    [dict |-> TRUE, id |-> id, rowNumber |-> 1, expanded |-> TRUE, createdAt |-> "c",
     modifiedAt |-> "m", cells |-> <<UnknownCell, GoodCell>>]

RECURSIVE Ascending(_)
Ascending(S) ==
    IF S = {} THEN <<>>
    ELSE LET m == CHOOSE x \in S : \A y \in S : x <= y
         IN  <<m>> \o Ascending(S \ {m})

\* Lines 104-117: what the remote answers to a request: every row of the
\* sheet, or with rowsModifiedSince the rows changed at or after that time.
Served(sheet_id, since) ==
    LET rows == source[sheet_id]
        ids == {id \in DOMAIN rows :
                   since = NoCursor \/ rows[id] >= fromisoformat(since)}
        order == Ascending(ids)
    IN  [columns |-> Columns, rows |-> [i \in 1..Len(order) |-> SourceRow(order[i])],
         null |-> {}]

\* The destination applies the operations it is sent, in order.
RECURSIVE Applied(_, _)
Applied(tables, operations) ==
    IF operations = <<>> THEN tables
    ELSE LET o == Head(operations)
             held == PreviousIds(tables, o.table)
         IN  Applied(IF o.op = "upsert" THEN Put(tables, o.table, held \cup {o.data.id})
                     ELSE IF o.op = "delete" THEN Put(tables, o.table, held \ {o.data.id})
                     ELSE tables,
                     Tail(operations))

UpsertedIds(operations) ==
    {operations[k].data.id : k \in {j \in 1..Len(operations) : operations[j].op = "upsert"}}

InitSync ==
    /\ configuration = [smartsheet_api_token |-> <<"t">>, smartsheet_sheet_ids |-> SyncRaw]
    /\ committed = [sync_cursor |-> NoCursor, all_ids |-> <<>>]
    /\ budget = 0
    /\ InitLocals
    /\ \E S \in {{1}, RowIds} :
        /\ source = [s \in {KnownSheet, OtherSheet} |->
                        IF s = KnownSheet THEN [id \in S |-> 0] ELSE [id \in {1} |-> 0]]
        /\ pending = {<<KnownSheet, id>> : id \in S} \cup {<<OtherSheet, 1>>}
    /\ dest = <<>>
    /\ edits = 0
    /\ lastFull = 0
    /\ prevRun = NoRun

\* The scheduler calls update() at once on a first sync; later, one tick
\* before the stored cursor turns StaleDays old, or at that moment.
SyncTimes ==
    IF committed.sync_cursor.kind # "iso" THEN {clock}
    ELSE {fromisoformat(committed.sync_cursor) + StaleDays * TicksPerDay + k : k \in {-1, 0}}

StartRunSync ==
    /\ pc \in {"idle", "done"}
    /\ runs < SyncRuns
    /\ BeginRun(SyncTimes)
    /\ lastFull' = IF sync_cursor' = NoCursor THEN started' ELSE lastFull
    /\ prevRun' = [ops |-> ops, log |-> fetchLog, cursor |-> sync_cursor,
                   started |-> started, changed |-> edits # prevRun.seen, seen |-> edits]
    /\ UNCHANGED <<source, dest, pending, edits>>

\* Lines 99-131 against the remote's rows.
FetchSheetSync ==
    /\ InLoop
    /\ FetchOk(Served(sheet_ids[idx], Request(sheet_ids[idx], sync_cursor).since))
    /\ UNCHANGED budget
    /\ UNCHANGED syncVars

\* Lines 114-123 for the first sheet: only its fetch may fail.
FetchFailSync ==
    /\ InLoop
    /\ sheet_ids[idx] = KnownSheet
    /\ FetchFail

\* The destination applies what is yielded.
Received ==
    LET yielded == SubSeq(ops', Len(ops) + 1, Len(ops'))
    IN  /\ dest' = Applied(dest, yielded)
        /\ pending' = pending \ {<<sheet_ids[idx], id>> : id \in UpsertedIds(yielded)}
        /\ UNCHANGED <<budget, source, edits, lastFull, prevRun>>

UpsertRowSync == RowStep /\ Received
DeleteRowSync == DeleteStep /\ Received

\* Between two runs one row of the first sheet may be added, changed or
\* removed.
CanEdit ==
    /\ pc = "done"
    /\ runs < SyncRuns
    /\ edits < MaxEdits
    /\ edits = prevRun.seen

Edited(rows) ==
    /\ source' = Put(source, KnownSheet, rows)
    /\ edits' = edits + 1
    /\ UNCHANGED <<configuration, committed, clock, started, budget, runs, pc, state,
                   sheet_ids, sync_cursor, sync_start, all_state_ids, idx, row_index, new_ids,
                   ops, fetchLog, dest, lastFull, prevRun>>

SourceInsert ==
    /\ CanEdit
    /\ \E id \in RowIds \ DOMAIN source[KnownSheet] :
        /\ Edited(Put(source[KnownSheet], id, clock))
        /\ pending' = pending \cup {<<KnownSheet, id>>}

SourceUpdate ==
    /\ CanEdit
    /\ \E id \in DOMAIN source[KnownSheet] :
        /\ Edited(Put(source[KnownSheet], id, clock))
        /\ pending' = pending \cup {<<KnownSheet, id>>}

SourceDelete ==
    /\ CanEdit
    /\ \E id \in DOMAIN source[KnownSheet] :
        /\ Edited([x \in DOMAIN source[KnownSheet] \ {id} |-> source[KnownSheet][x]])
        /\ pending' = pending \ {<<KnownSheet, id>>}

NextSync ==
    StartRunSync \/ FetchFailSync \/ FetchSheetSync \/ UpsertRowSync \/ DeleteRowSync
    \/ StoreIds \/ FinalCheckpoint
    \/ SourceInsert \/ SourceUpdate \/ SourceDelete

SpecSync == InitSync /\ [][NextSync]_vars

\* ---------------------------------------------------------------- claims
InRun == pc \in {"running", "done"}
Entries == 1..Len(fetchLog)
SheetOf(i) == fetchLog[i].request.sheet
OpsAt(i, kind) == {k \in 1..Len(ops) : ops[k].entry = i /\ ops[k].op = kind}
DeleteIdsOf(i) == {ops[k].data.id : k \in OpsAt(i, "delete")}
UpsertsOf(i) == SelectSeq(ops, LAMBDA o : o.entry = i /\ o.op = "upsert")
ObservedIds(i) ==
    {fetchLog[i].response.rows[k].id : k \in 1..Len(fetchLog[i].response.rows)}
PersistedIds(i) ==
    IF SheetOf(i) \in DOMAIN state.all_ids THEN state.all_ids[SheetOf(i)] ELSE {}
LastOp == ops[Len(ops)]
Week == StaleDays * TicksPerDay
CursorAge == started - fromisoformat(state.sync_cursor)
\* Lines 104-109: the run's requests carry the cursor ("incremental sync
\* from cursor"), or none does ("full sync").
Incremental == Truthy(sync_cursor)
FullMode == ~Truthy(sync_cursor)
\* The sheet of entry i was fetched and its loop body has run to its end.
Done(i) == fetchLog[i].ok /\ i < idx

\* C1: in a full-mode run, for every sheet fetched successfully the deletes
\* yielded for it are exactly one per ID of previous - observed, and the
\* checkpoint records observed for it, so no deleted ID stays recorded.  (A
\* row without an ID counts with the absent ID the code reads for it.)
C1_DeleteCompleteness ==
    (InRun /\ FullMode) =>
        \A i \in Entries : Done(i) =>
            LET gone == PersistedIds(i) \ ObservedIds(i)
            IN  /\ DeleteIdsOf(i) = gone
                /\ Cardinality(OpsAt(i, "delete")) = Cardinality(gone)
                /\ pc = "done" =>
                    /\ LastOp.op = "checkpoint"
                    /\ SheetOf(i) \in DOMAIN LastOp.data.all_ids
                    /\ LastOp.data.all_ids[SheetOf(i)] = ObservedIds(i)
                    /\ committed.all_ids = LastOp.data.all_ids
                    /\ gone \cap LastOp.data.all_ids[SheetOf(i)] = {}

\* C2: in an incremental run, for every sheet fetched successfully the
\* checkpoint records previous \cup observed, a superset of previous.
C2_IncrementalUnion ==
    (pc = "done" /\ Incremental) =>
        \A i \in Entries : fetchLog[i].ok =>
            /\ SheetOf(i) \in DOMAIN committed.all_ids
            /\ committed.all_ids[SheetOf(i)] = PersistedIds(i) \cup ObservedIds(i)

\* C3: in the operation stream of a run no upsert of a sheet follows a
\* delete of that sheet, and a delete is yielded only in a full-mode run and
\* only for a sheet that has an entry in the state the run started with.
C3_UpsertsBeforeDeletes ==
    /\ \A k, l \in 1..Len(ops) :
        (k < l /\ ops[k].op = "delete" /\ ops[l].op = "upsert")
            => sheet_ids[ops[k].entry] # sheet_ids[ops[l].entry]
    /\ \A k \in 1..Len(ops) : ops[k].op = "delete" =>
        /\ sync_cursor = NoCursor
        /\ sheet_ids[ops[k].entry] \in DOMAIN state.all_ids

\* C4: a run that passed the configuration check yields no checkpoint while
\* sheets remain, ends only by yielding one, and that checkpoint is the last
\* and only one of the run, however many fetches failed: a run ends
\* without checkpoint only on the configuration error.
C4_OneTerminalCheckpoint ==
    /\ pc = "running" => \A k \in 1..Len(ops) : ops[k].op # "checkpoint"
    /\ pc = "done" =>
        /\ Len(ops) >= 1
        /\ LastOp.op = "checkpoint"
        /\ \A k \in 1..(Len(ops) - 1) : ops[k].op # "checkpoint"
        /\ Len(fetchLog) = Len(sheet_ids)
    /\ pc \in {"failed", "crashed"} =>
        /\ fetchLog = <<>>
        /\ \/ configuration.smartsheet_api_token = <<>>
           \/ sheet_ids = <<>>

\* C5: a sheet whose fetch failed gets no upsert and no delete in the run
\* and keeps its entry of the starting state in the checkpoint, and every
\* other configured sheet is still fetched and, when its fetch succeeds,
\* recorded.
C5_FailureIsolated ==
    \A i \in Entries : ~fetchLog[i].ok =>
        /\ \A k \in 1..Len(ops) :
               ops[k].op # "checkpoint" => sheet_ids[ops[k].entry] # SheetOf(i)
        /\ pc = "done" =>
            /\ SheetOf(i) \in DOMAIN committed.all_ids <=> SheetOf(i) \in DOMAIN state.all_ids
            /\ SheetOf(i) \in DOMAIN state.all_ids =>
                   committed.all_ids[SheetOf(i)] = state.all_ids[SheetOf(i)]
            /\ \A j \in 1..Len(sheet_ids) :
                /\ j \in Entries
                /\ SheetOf(j) = sheet_ids[j]
                /\ (fetchLog[j].ok /\ SheetOf(j) # SheetOf(i)) =>
                    /\ committed.all_ids[SheetOf(j)] = ObservedIds(j)
                    /\ Len(UpsertsOf(j)) =
                           Len(SelectSeq(fetchLog[j].response.rows,
                                         LAMBDA r : \A c \in 1..Len(r.cells) : r.cells[c].dict))

\* C6: the checkpoint's sync_cursor is the stamp taken when the run started
\* (at the clock read of the mode decision or at the read that follows it),
\* not later than any request of the run; and the cursor an incremental run
\* filters by is not later than any request of the run before it.
C6_StampedAtStart ==
    InRun =>
        /\ \E t \in {started, started + 1} : sync_start = isoformat(t)
        /\ \A i \in Entries :
            /\ started <= fetchLog[i].at
            /\ fromisoformat(sync_start) <= fetchLog[i].at
        /\ pc = "done" =>
            /\ LastOp.data.sync_cursor = sync_start
            /\ committed.sync_cursor = sync_start
            /\ \A i \in Entries : fromisoformat(committed.sync_cursor) <= fetchLog[i].at

C6_NextRunFilter ==
    (pc = "done" /\ pc' = "running" /\ sync_cursor' # NoCursor) =>
        /\ sync_cursor' = committed.sync_cursor
        /\ \A i \in Entries : fromisoformat(sync_cursor') <= fetchLog[i].at

C6_CursorAtRunStart == [](C6_StampedAtStart) /\ [][C6_NextRunFilter]_vars

C6_Witness ==
    /\ pc = "running"
    /\ runs = 2
    /\ sync_cursor # NoCursor
    /\ fetchLog # <<>>
    /\ fetchLog[Len(fetchLog)].request.since = state.sync_cursor
    /\ started < clock
    /\ sync_start # isoformat(started)

\* C7: with an empty token, or a sheet list that holds nothing but commas
\* and blanks, the run fails before any request and yields no operation, and
\* the stored state stays as it was.
NoSheetListed(raw) == \A i \in 1..Len(raw) : raw[i] \in {",", " "}

C7_ConfigErrorEmitsNothing ==
    (\/ configuration.smartsheet_api_token = <<>>
     \/ NoSheetListed(configuration.smartsheet_sheet_ids)) =>
        /\ pc \in {"idle", "failed"}
        /\ runs > 0 => pc = "failed"
        /\ ops = <<>>
        /\ fetchLog = <<>>
        /\ runs > 0 => committed = state

C7_Witness ==
    /\ pc = "failed"
    /\ configuration.smartsheet_api_token # <<>>
    /\ \E i, j \in 1..Len(configuration.smartsheet_sheet_ids) :
        /\ configuration.smartsheet_sheet_ids[i] = ","
        /\ configuration.smartsheet_sheet_ids[j] = " "
    /\ committed.all_ids # <<>>

\* C8 as stated: the run is incremental (its requests carry the stored
\* cursor) exactly when the stored cursor parses and is at most 7 days old
\* at run start, 7 days exactly included; otherwise it is full (no request
\* carries a cursor).
C8_IncrementalUpToSevenDays ==
    InRun =>
        /\ Incremental <=> (state.sync_cursor.kind = "iso" /\ CursorAge <= Week)
        /\ Incremental => sync_cursor = state.sync_cursor
        /\ \A i \in Entries :
               fetchLog[i].request.since = IF Incremental THEN sync_cursor ELSE NoCursor

\* C8 amended: the run is incremental (its requests carry the stored
\* cursor) exactly when the stored cursor parses and is less than 7 days old
\* at run start; at 7 days exactly, and in every other case, the run is full
\* (no request carries a cursor).
C8_IncrementalUnderSevenDays ==
    InRun =>
        /\ Incremental <=> (state.sync_cursor.kind = "iso" /\ CursorAge < Week)
        /\ Incremental => sync_cursor = state.sync_cursor
        /\ \A i \in Entries :
               fetchLog[i].request.since = IF Incremental THEN sync_cursor ELSE NoCursor

C8_Witness ==
    /\ pc = "running"
    /\ state.sync_cursor.kind = "iso"
    /\ CursorAge = Week
    /\ sync_cursor = NoCursor
    /\ fetchLog # <<>>
    /\ fetchLog[1].request.since = NoCursor

\* C9: a run whose stored cursor cannot be parsed (the empty string
\* included) or is older than 7 days sends
\* the requests, yields the upserts and deletes and records the IDs that the
\* same run yields from a state without cursor.
C9_StaleOrBadActsAsNoCursor ==
    (/\ InRun
     /\ \/ state.sync_cursor.kind \in {"bad", "empty"}
        \/ state.sync_cursor.kind = "iso" /\ CursorAge > Week) =>
        LET none == DetermineMode(NoCursor, started)
        IN  \A i \in Entries :
                /\ fetchLog[i].request = Request(sheet_ids[i], none)
                /\ Done(i) =>
                    LET rows == fetchLog[i].response.rows
                        current == CurrentIds(PersistedIds(i), NewIds(rows), none)
                    IN  /\ UpsertsOf(i) =
                               RowUpserts(rows, TableName(SheetOf(i)),
                                          column_mapping(fetchLog[i].response.columns), i)
                        /\ DeleteIdsOf(i) = DeletedIds(PersistedIds(i), current, none)
                        /\ Cardinality(OpsAt(i, "delete")) = Cardinality(DeleteIdsOf(i))
                        /\ pc = "done" => committed.all_ids[SheetOf(i)] = current

\* C10: a row without an ID, or with a malformed cell, gets no operation,
\* and the well-formed rows of the sheet, those after it included, are
\* upserted: a sheet's upserts are those of its well-formed rows, in order.
WellFormed(row) == row.id # NoId /\ \A c \in 1..Len(row.cells) : row.cells[c].dict

C10_MalformedRowSkipped ==
    \A i \in Entries : Done(i) =>
        LET good == SelectSeq(fetchLog[i].response.rows, WellFormed)
        IN  /\ Len(UpsertsOf(i)) = Len(good)
            /\ \A k \in 1..Len(good) : UpsertsOf(i)[k].data.id = good[k].id

OpSet(operations, kind) ==
    {operations[k] : k \in {j \in 1..Len(operations) : operations[j].op = kind}}
SameOutcomes(log1, log2) ==
    /\ Len(log1) = Len(log2)
    /\ \A i \in 1..Len(log1) :
        /\ log1[i].ok = log2[i].ok
        /\ log1[i].response = log2[i].response
\* Two full-mode runs in a row, the source unchanged between them and the
\* same fetches answered.
FullTwice ==
    /\ pc = "done"
    /\ runs >= 2
    /\ prevRun.cursor = NoCursor
    /\ sync_cursor = NoCursor
    /\ ~prevRun.changed
    /\ SameOutcomes(prevRun.log, fetchLog)

\* C11: when full mode runs twice in a row on an unchanged source, the
\* second run starting from the all_ids the first one wrote, the second run
\* yields the same set of upserts as the first, yields no delete, and
\* writes all_ids equal to the all_ids it was handed.
C11_FullModeIdempotent ==
    FullTwice =>
        /\ state.all_ids = prevRun.ops[Len(prevRun.ops)].data.all_ids
        /\ OpSet(ops, "upsert") = OpSet(prevRun.ops, "upsert")
        /\ OpSet(ops, "delete") = {}
        /\ LastOp.op = "checkpoint"
        /\ LastOp.data.all_ids = state.all_ids
        /\ committed.all_ids = state.all_ids

C11_Witness ==
    /\ FullTwice
    /\ \A i \in Entries : fetchLog[i].ok /\ UpsertsOf(i) # <<>>
    /\ OpSet(prevRun.ops, "upsert") # {}

BaseFields == {"id", "row_number", "expanded", "created_at", "modified_at"}
RowOf(i, k) == fetchLog[i].response.rows[k]
MappingOf(i) == column_mapping(fetchLog[i].response.columns)
Resolves(i, cell) == cell.columnId \in DOMAIN MappingOf(i)

\* C12: for every row of a fetched sheet an upsert is yielded; a cell whose
\* column ID is not in the column map adds no field to it, and every cell
\* whose column ID is in the map gives the field named by the column's
\* title, holding the cell's value: the record's fields are the fixed ones
\* and the titles of the row's resolving cells, nothing else.
C12_UnknownColumnDropped ==
    \A i \in Entries : Done(i) =>
        /\ Len(UpsertsOf(i)) = Len(fetchLog[i].response.rows)
        /\ \A k \in 1..Len(UpsertsOf(i)) :
            LET data == UpsertsOf(i)[k].data
                cells == RowOf(i, k).cells
                resolving == {c \in 1..Len(cells) : Resolves(i, cells[c])}
            IN  /\ DOMAIN data = BaseFields \cup {MappingOf(i)[cells[c].columnId] : c \in resolving}
                /\ \A c \in resolving : data[MappingOf(i)[cells[c].columnId]] = cells[c].value

\* C20: every upsert carries the row's ID under "id" and the row's number,
\* expanded flag and creation and modification times under row_number,
\* expanded, created_at and modified_at, whatever the sheet's columns are
\* titled.
C20_KeyAndMetadataKept ==
    \A i \in Entries : Done(i) =>
        \A k \in 1..Len(UpsertsOf(i)) :
            LET data == UpsertsOf(i)[k].data
                row == RowOf(i, k)
            IN  /\ data["id"] = row.id
                /\ data["row_number"] = row.rowNumber
                /\ data["expanded"] = row.expanded
                /\ data["created_at"] = row.createdAt
                /\ data["modified_at"] = row.modifiedAt

DestIds(sheet_id) == PreviousIds(dest, TableName(sheet_id))
SourceIds(sheet_id) == DOMAIN source[sheet_id]
\* The source has not changed since this run started.
SourceAsFetched == edits = prevRun.seen

\* C13: across any sequence of runs, once a full-mode run has fetched a
\* sheet and the destination has applied what the run yielded for it, the
\* destination's table holds exactly the row IDs the source holds: no row
\* upserted by an earlier run and deleted at the source since, be it while
\* only incremental runs ran, is left in the table.
C13_FullRunConverges ==
    (InRun /\ sync_cursor = NoCursor /\ SourceAsFetched) =>
        \A i \in Entries : Done(i) => DestIds(SheetOf(i)) = SourceIds(SheetOf(i))

\* C14: in a sequence of runs, each started from the checkpoint of the one
\* before, full-mode runs recur within the staleness window whatever the
\* interval between runs: whenever a run is incremental, the latest
\* full-mode run started no more than StaleDays days before it.
C14_FullRunsRecur ==
    (InRun /\ sync_cursor # NoCursor) => started - lastFull <= Week

C15_ModeOfRun ==
    InRun =>
        /\ sync_cursor = DetermineMode(state.sync_cursor, started)
        /\ \A i \in Entries :
            /\ fetchLog[i].request.since = sync_cursor
            /\ Done(i) =>
                DeleteIdsOf(i) = IF sync_cursor = NoCursor
                                 THEN PersistedIds(i) \ ObservedIds(i) ELSE {}
C15_ModeKept ==
    (pc = "running" /\ pc' \in {"running", "done"}) => sync_cursor' = sync_cursor

\* C15: the mode of a run is decided once, before the first sheet is
\* fetched, and does not change during the run: every request of the run
\* carries the run's cursor or none does, and deletes are worked out for
\* every fetched sheet or for none.
C15_ModeDecidedOnce == [](C15_ModeOfRun) /\ [][C15_ModeKept]_vars

C15_Witness ==
    /\ pc = "done"
    /\ Len(fetchLog) = 2
    /\ \A i \in Entries : fetchLog[i].ok /\ fetchLog[i].request.since.kind = "iso"
    /\ runs >= 2

Configured == ParseSheetIds(configuration.smartsheet_sheet_ids)
C16_InOrder ==
    InRun =>
        /\ \A i \in Entries :
            /\ SheetOf(i) = Configured[i]
            /\ \A j \in Entries : j < i => fetchLog[j].at < fetchLog[i].at
        /\ \A k, l \in 1..Len(ops) :
            (k < l /\ ops[l].op # "checkpoint") =>
                /\ ops[k].op # "checkpoint"
                /\ ops[k].entry <= ops[l].entry
        /\ \A k \in 1..Len(ops) :
            ops[k].op # "checkpoint" =>
                /\ ops[k].entry \in Entries
                /\ ops[k].table = TableName(Configured[ops[k].entry])
\* A step that sends a request starts from a state in which every sheet
\* before it was skipped or has its all_ids entry written, and nothing has
\* been yielded for the sheet itself or a later one.
C16_FetchAfterUpdate ==
    (InRun /\ Len(fetchLog') = Len(fetchLog) + 1) =>
        /\ \A j \in Entries :
            fetchLog[j].ok =>
                /\ SheetOf(j) \in DOMAIN all_state_ids
                /\ all_state_ids[SheetOf(j)] =
                       CurrentIds(PersistedIds(j), ObservedIds(j), sync_cursor)
        /\ \A k \in 1..Len(ops) : ops[k].entry <= Len(fetchLog)

\* C16: the sheets are processed one after another in configured order:
\* in the run's operations every upsert and delete of an earlier sheet
\* comes before every one of a later sheet, and a sheet is fetched only
\* after the sheet before it was skipped or had its all_ids entry written.
C16_SheetsInSequence == [](C16_InOrder) /\ [][C16_FetchAfterUpdate]_vars

C16_Witness ==
    /\ pc = "done"
    /\ Len(fetchLog) = 2
    /\ UpsertsOf(1) # <<>>
    /\ DeleteIdsOf(1) # {}
    /\ UpsertsOf(2) # <<>>

FailedBefore(sheet_id) ==
    /\ \E j \in 1..Len(prevRun.log) :
        prevRun.log[j].request.sheet = sheet_id /\ ~prevRun.log[j].ok
    /\ \E j \in 1..Len(prevRun.log) : prevRun.log[j].ok

\* C17: when a sheet's fetch failed in a run in which another sheet's fetch
\* succeeded, the next run that fetches the sheet upserts every row of it
\* that was created or changed before the failed run started and has had
\* no upsert since, also when that next run is incremental with the cursor
\* the failed run's checkpoint wrote: no such row is left without upsert.
C17_NoChangeLostAfterFailure ==
    (InRun /\ runs >= 2) =>
        \A i \in Entries :
            (Done(i) /\ FailedBefore(SheetOf(i))) =>
                \A id \in SourceIds(SheetOf(i)) :
                    source[SheetOf(i)][id] < prevRun.started =>
                        <<SheetOf(i), id>> \notin pending

FetchedSheets == {SheetOf(i) : i \in {j \in Entries : fetchLog[j].ok}}
ConfiguredSheets == {Configured[i] : i \in 1..Len(Configured)}
C18_OnlyFetchedChange ==
    InRun =>
        /\ FetchedSheets \subseteq ConfiguredSheets
        /\ DOMAIN state.all_ids \subseteq DOMAIN all_state_ids
        /\ \A s \in DOMAIN all_state_ids \ FetchedSheets :
            /\ s \in DOMAIN state.all_ids
            /\ all_state_ids[s] = state.all_ids[s]
        /\ pc = "done" =>
            /\ LastOp.op = "checkpoint"
            /\ LastOp.data.all_ids = all_state_ids
            /\ committed.all_ids = all_state_ids
C18_NoEntryRemoved == DOMAIN committed.all_ids \subseteq DOMAIN committed'.all_ids

\* C18: a run changes the all_ids entry of no sheet but the configured
\* sheets whose fetch succeeded in it: the entry of a sheet that the state
\* holds and the configuration does not list, or whose fetch failed, is in
\* the checkpoint with the value it had, and no entry is ever removed.
C18_Frame == [](C18_OnlyFetchedChange) /\ [][C18_NoEntryRemoved]_vars

C18_Witness ==
    /\ pc = "done"
    /\ KnownSheet \in DOMAIN state.all_ids
    /\ KnownSheet \notin ConfiguredSheets
    /\ FetchedSheets # {}
    /\ committed.all_ids[KnownSheet] = RowIds

\* Processing the row raises: one of its cells is no object.
Raises(row) == \E c \in 1..Len(row.cells) : ~row.cells[c].dict
UpsertIdsOf(i) == {UpsertsOf(i)[k].data.id : k \in 1..Len(UpsertsOf(i))}

\* C19: after a full-mode run, every row ID the checkpoint records for a
\* fetched sheet is the ID of a row the run yielded an upsert for: a row
\* skipped because its processing raised is not recorded, and an ID of the
\* previous state is not kept without an upsert or a delete.
C19_RecordedIdsWereUpserted ==
    (pc = "done" /\ FullMode) =>
        \A i \in Entries : fetchLog[i].ok =>
            LET recorded == LastOp.data.all_ids[SheetOf(i)]
            IN  /\ recorded \subseteq UpsertIdsOf(i)
                /\ \A k \in 1..Len(fetchLog[i].response.rows) :
                    Raises(RowOf(i, k)) => RowOf(i, k).id \notin recorded
                /\ PersistedIds(i) \cap recorded \subseteq UpsertIdsOf(i) \cup DeleteIdsOf(i)
====
